---------------------------- MODULE Spec2Model ----------------------------
(***************************************************************************)
(* A model of rotate.py: the command-line tool that rotates a JPEG or PNG  *)
(* file in place through an external tool and keeps a backup of the        *)
(* original in a rotate_bkup directory.                                    *)
(*                                                                         *)
(* The file system is part of the state: the source files, the temporary   *)
(* file of the running call, the backup directories and their files.  One  *)
(* rotate_image call is a sequence of steps (pc), one per statement of     *)
(* rotate_with_jpegtran / rotate_with_imagemagick that touches the file    *)
(* system, so that the order of the backup copy and the replace is         *)
(* observable.  What the operating system and the external tools decide    *)
(* (whether a file can be created, the tool's exit status and output,      *)
(* whether a copy or a rename succeeds) is a nondeterministic input of the *)
(* step that asks for it.                                                  *)
(***************************************************************************)
EXTENDS Naturals, Sequences, FiniteSets, TLC

VARIABLES
    files,             \* source path -> content (NoFile when absent)
    tmp,               \* content at tmp_path (NoFile when absent)
    bkp,               \* backup directory -> (file name -> content)
    dirExists,         \* backup directory -> it exists on disk
    creatable,         \* backup directory -> os.makedirs of it would succeed
    backup_dir_cache,  \* _backup_dir_cache: source directory -> backup directory
    pc,                \* position of the program
    mode,              \* "none", "oneshot" or "interactive"
    filepath,          \* argument of the running rotate_image call
    direction,         \* argument of the running rotate_image call
    typed,             \* the direction token as the user gave it
    file_type,         \* local of rotate_image: get_file_type's result
    rotation_angle,    \* rotation_map[direction], "" before it is resolved
    tool,              \* external tool the call invoked, "" when none
    returncode,        \* result.returncode of the tool
    backup_dir,        \* local of rotate_with_*: ensure_backup_dir's result
    backup_path,       \* local of rotate_with_*: get_unique_backup_path's result
    result,            \* return value of the last rotate_image call
    message,           \* diagnostic the last call printed
    exit_status,       \* exit status of the process once pc = "exited"
    calls,             \* number of rotate_image calls made in this run
    envs,              \* number of changes made by the environment
    pre_files,         \* files when the running call started
    pre_bkp,           \* bkp when the running call started
    pre_cache,         \* backup_dir_cache when the running call started
    pre_dirs,          \* dirExists when the running call started
    copied,            \* shutil.copy of the running call has succeeded
    replaced           \* os.replace of the running call has succeeded

vars == <<files, tmp, bkp, dirExists, creatable, backup_dir_cache, pc, mode,
          filepath, direction, typed, file_type, rotation_angle, tool, returncode,
          backup_dir, backup_path, result, message, exit_status, calls, envs,
          pre_files, pre_bkp, pre_cache, pre_dirs, copied, replaced>>

fsVars == <<files, tmp, bkp, dirExists>>
callVars == <<filepath, direction, typed, file_type, rotation_angle, tool, returncode,
              backup_dir, backup_path>>
preVars == <<pre_files, pre_bkp, pre_cache, pre_dirs>>

----------------------------------------------------------------------------
(* Bounds of the model.                                                    *)

\* rotate_image calls in one run (the interactive loop is unbounded).
MaxCalls == 2

\* Changes the environment makes to the backup locations during one run.
MaxEnv == 1

\* max_attempts of get_unique_backup_path.  The source sets 10000; the model
\* scales it down so that the exhausted case is reached.  Every formula is
\* stated in terms of max_attempts, not of its value.
max_attempts == 3

----------------------------------------------------------------------------
(* Contents of files.  An image is identified by the file it came from and *)
(* its orientation in quarter turns clockwise.                             *)

NoFile == [kind |-> "absent", id |-> "", orient |-> 0]
EmptyFile == [kind |-> "empty", id |-> "", orient |-> 0]
PartialFile == [kind |-> "partial", id |-> "", orient |-> 0]
Image(id, o) == [kind |-> "image", id |-> id, orient |-> o]

\* os.path.getsize(p) > 0
NonEmpty(c) == c.kind \in {"image", "partial"}

\* What the external tool writes for a clockwise rotation by `angle`.
QuarterTurns(angle) ==
    CASE angle = "90" -> 1 [] angle = "180" -> 2 [] angle = "270" -> 3 [] OTHER -> 0

Rotated(c, angle) == Image(c.id, (c.orient + QuarterTurns(angle)) % 4)

----------------------------------------------------------------------------
(* Paths.  A file name is the pair os.path.splitext gives: <<base, ext>>.  *)

SrcDirs == {"a", "b"}

Home == "~/rotate_bkup"

\* os.path.join(file_dir, 'rotate_bkup')
LocalBackupDir(file_dir) == file_dir \o "/rotate_bkup"

BackupDirs == {LocalBackupDir(d) : d \in SrcDirs} \cup {Home}

P(d, base, ext) == [dir |-> d, name |-> <<base, ext>>]

\* The paths a command can name.
Paths == { P("a", "photo", ".jpg"), P("a", "pic", ".PNG"), P("b", "photo", ".jpg"),
           P("a", "notes", ".txt"), P("b", "missing", ".png") }

\* The commands of the model: a path and a direction token as typed.  The
\* tokens cover the three directions, an upper-case one and an invalid one;
\* the paths a JPEG and a PNG, the same file name in two directories, an
\* unsupported type and a missing file.
Requests ==
    { <<P("a", "photo", ".jpg"), "l">>, <<P("a", "pic", ".PNG"), "F">>,
      <<P("b", "photo", ".jpg"), "r">>, <<P("a", "photo", ".jpg"), "x">>,
      <<P("a", "notes", ".txt"), "r">>, <<P("b", "missing", ".png"), "l">> }

\* str.lower() on the strings of the model.
Lower(s) ==
    CASE s = "L" -> "l" [] s = "R" -> "r" [] s = "F" -> "f"
      [] s = ".JPG" -> ".jpg" [] s = ".JPEG" -> ".jpeg" [] s = ".PNG" -> ".png"
      [] OTHER -> s

None == "None"

\* os.path.isfile(filepath)
IsFile(p) == p \in DOMAIN files /\ files[p] # NoFile

\* os.path.exists(os.path.join(dir, name)) for a path in a backup directory
BackupExists(dir, name) == dirExists[dir] /\ name \in DOMAIN bkp[dir]


NoPath == [dir |-> None, name |-> <<"", "">>]

----------------------------------------------------------------------------
(* The pure helpers of rotate.py.                                          *)

\* Mutant of rotation_map: left and right are exchanged.
rotation_map_Swapped == [l |-> "90", r |-> "270", f |-> "180"]

\* rotation_map of rotate_image
rotation_map == [l |-> "270", r |-> "90", f |-> "180"]

\* Mutant of get_file_type: the extension is compared as written.
get_file_type_CaseSensitive(p) ==
    LET ext == p.name[2] IN
    IF ext \in {".jpg", ".jpeg"} THEN "jpeg"
    ELSE IF ext = ".png" THEN "png"
    ELSE None

\* get_file_type(filepath): the lower-cased extension decides.
get_file_type(p) ==
    LET ext == Lower(p.name[2]) IN
    IF ext \in {".jpg", ".jpeg"} THEN "jpeg"
    ELSE IF ext = ".png" THEN "png"
    ELSE None

\* f"{base_name}_{counter}{ext}"
SuffixedName(base_name, counter, ext) ==
    <<base_name \o "_" \o ToString(counter), ext>>

\* The while loop of get_unique_backup_path, from `counter` on.
RECURSIVE CounterLoop(_, _, _, _)
CounterLoop(dir, base_name, ext, counter) ==
    IF counter < max_attempts
    THEN LET new_filename == SuffixedName(base_name, counter, ext) IN
         IF ~BackupExists(dir, new_filename)
         THEN [raised |-> FALSE, path |-> [dir |-> dir, name |-> new_filename]]
         ELSE CounterLoop(dir, base_name, ext, counter + 1)
    ELSE [raised |-> TRUE, path |-> NoPath]

\* Mutant of get_unique_backup_path: the existing name is used again.
get_unique_backup_path_NoSuffix(dir, filename) ==
    [raised |-> FALSE, path |-> [dir |-> dir, name |-> filename]]

\* Mutant of get_unique_backup_path: the counter starts at 2.
get_unique_backup_path_FromTwo(dir, filename) ==
    IF ~BackupExists(dir, filename)
    THEN [raised |-> FALSE, path |-> [dir |-> dir, name |-> filename]]
    ELSE CounterLoop(dir, filename[1], filename[2], 2)

\* Returns the path, or raised = TRUE for the RuntimeError of line 66.
get_unique_backup_path(dir, filename) ==
    LET base_name == filename[1]
        ext == filename[2]
    IN  IF ~BackupExists(dir, filename)
        THEN [raised |-> FALSE, path |-> [dir |-> dir, name |-> filename]]
        ELSE CounterLoop(dir, base_name, ext, 1)

\* Mutant of ensure_backup_dir: no fallback to the home directory.
ensure_backup_dir_NoFallback(file_dir) ==
    LET local == LocalBackupDir(file_dir) IN
    IF backup_dir_cache[file_dir] # None
    THEN [raised |-> FALSE, dir |-> backup_dir_cache[file_dir], made |-> None,
          store |-> FALSE]
    ELSE IF dirExists[local]
    THEN [raised |-> FALSE, dir |-> local, made |-> None, store |-> TRUE]
    ELSE IF creatable[local]
    THEN [raised |-> FALSE, dir |-> local, made |-> local, store |-> TRUE]
    ELSE [raised |-> TRUE, dir |-> None, made |-> None, store |-> FALSE]

\* Mutant of ensure_backup_dir: the remembered directory is not looked up,
\* every call resolves again.
ensure_backup_dir_IgnoresCache(file_dir) ==
    LET local == LocalBackupDir(file_dir) IN
    IF dirExists[local]
    THEN [raised |-> FALSE, dir |-> local, made |-> None, store |-> TRUE]
    ELSE IF creatable[local]
    THEN [raised |-> FALSE, dir |-> local, made |-> local, store |-> TRUE]
    ELSE IF dirExists[Home]
    THEN [raised |-> FALSE, dir |-> Home, made |-> None, store |-> TRUE]
    ELSE IF creatable[Home]
    THEN [raised |-> FALSE, dir |-> Home, made |-> Home, store |-> TRUE]
    ELSE [raised |-> TRUE, dir |-> None, made |-> None, store |-> FALSE]

\* ensure_backup_dir(file_dir): the directory it returns, the directory it
\* created with os.makedirs (None when none), and raised = TRUE for the
\* RuntimeError of line 45.  os.makedirs(d) succeeds exactly when creatable[d].
ensure_backup_dir(file_dir) ==
    LET local == LocalBackupDir(file_dir) IN
    IF backup_dir_cache[file_dir] # None
    THEN [raised |-> FALSE, dir |-> backup_dir_cache[file_dir], made |-> None,
          store |-> FALSE]
    ELSE IF dirExists[local]
    THEN [raised |-> FALSE, dir |-> local, made |-> None, store |-> TRUE]
    ELSE IF creatable[local]
    THEN [raised |-> FALSE, dir |-> local, made |-> local, store |-> TRUE]
    ELSE IF dirExists[Home]
    THEN [raised |-> FALSE, dir |-> Home, made |-> None, store |-> TRUE]
    ELSE IF creatable[Home]
    THEN [raised |-> FALSE, dir |-> Home, made |-> Home, store |-> TRUE]
    ELSE [raised |-> TRUE, dir |-> None, made |-> None, store |-> FALSE]

----------------------------------------------------------------------------
(* The initial state: the process has just started.  The source files      *)
(* exist; the backup locations are in any state earlier runs and the       *)
(* user's permissions can have left them in.                               *)

OldFile == Image("old", 0)

\* Backup names an earlier run can have left for a/photo.jpg.
EarlierNames ==
    {<<"photo", ".jpg">>} \cup
    {SuffixedName("photo", k, ".jpg") : k \in 1..max_attempts}

InitFiles ==
    [p \in Paths |->
        IF p.name[1] = "missing" THEN NoFile ELSE Image(p.dir \o "/" \o p.name[1], 0)]

Init ==
    /\ files = InitFiles
    /\ tmp = NoFile
    /\ dirExists \in {f \in [BackupDirs -> BOOLEAN] : ~f[LocalBackupDir("b")]}
    /\ creatable \in {f \in [BackupDirs -> BOOLEAN] : f[LocalBackupDir("b")]}
    /\ dirExists[LocalBackupDir("a")] =>
          ~dirExists[Home] /\ creatable = [d \in BackupDirs |-> TRUE]
    /\ \E S \in SUBSET EarlierNames, T \in {{}, {<<"photo", ".jpg">>}} :
         bkp = [d \in BackupDirs |->
                  IF d = LocalBackupDir("a") /\ dirExists[d] THEN [n \in S |-> OldFile]
                  ELSE IF d = Home /\ dirExists[d] THEN [n \in T |-> OldFile]
                  ELSE [n \in {} |-> OldFile]]
    /\ backup_dir_cache = [d \in SrcDirs |-> None]
    /\ pc = "main"
    /\ mode = "none"
    /\ filepath = NoPath
    /\ direction = ""
    /\ typed = ""
    /\ file_type = None
    /\ rotation_angle = ""
    /\ tool = ""
    /\ returncode = 0
    /\ backup_dir = None
    /\ backup_path = NoPath
    /\ result = FALSE
    /\ message = ""
    /\ exit_status = 0
    /\ calls = 0
    /\ envs = 0
    /\ pre_files = files
    /\ pre_bkp = bkp
    /\ pre_cache = backup_dir_cache
    /\ pre_dirs = dirExists
    /\ copied = FALSE
    /\ replaced = FALSE

----------------------------------------------------------------------------
(* Entering and leaving rotate_image.                                      *)

\* The call rotate_image(p, d) is made.
StartCall(p, d) ==
    /\ calls < MaxCalls
    /\ calls' = calls + 1
    /\ filepath' = p
    /\ direction' = d
    /\ file_type' = None
    /\ rotation_angle' = ""
    /\ tool' = ""
    /\ returncode' = 0
    /\ backup_dir' = None
    /\ backup_path' = NoPath
    /\ message' = ""
    /\ pre_files' = files
    /\ pre_bkp' = bkp
    /\ pre_cache' = backup_dir_cache
    /\ pre_dirs' = dirExists
    /\ copied' = FALSE
    /\ replaced' = FALSE
    /\ pc' = "rotate_image"
    /\ UNCHANGED <<fsVars, creatable, backup_dir_cache, result, exit_status, envs>>

\* rotate_image returns r after printing the diagnostic msg.
Return(r, msg) ==
    /\ result' = r
    /\ message' = msg
    /\ pc' = "returned"

\* if os.path.exists(tmp_path): os.unlink(tmp_path)
Unlink == tmp' = NoFile

\* Mutant of Fail: the temporary file is left behind.
Fail_KeepTemp(msg) ==
    /\ tmp' = tmp
    /\ Return(FALSE, msg)

\* A failing path of rotate_with_*: the temporary file is removed and the
\* call returns False.
Fail(msg) ==
    /\ Unlink
    /\ Return(FALSE, msg)

----------------------------------------------------------------------------
(* main                                                                    *)

\* rotate.py -p
MainInteractive ==
    /\ pc = "main"
    /\ mode' = "interactive"
    /\ pc' = "prompt"
    /\ UNCHANGED <<fsVars, creatable, backup_dir_cache, callVars, result, message,
                   exit_status, calls, envs, preVars, copied, replaced>>

\* rotate.py <image_file> <direction>: direction = sys.argv[2].lower()
MainOneShot ==
    /\ pc = "main"
    /\ mode' = "oneshot"
    /\ \E q \in Requests : StartCall(q[1], Lower(q[2])) /\ typed' = q[2]

\* Any other argument list: the usage text and sys.exit(1).
MainUsage ==
    /\ pc = "main"
    /\ mode' = "usage"
    /\ pc' = "exited"
    /\ exit_status' = 1
    /\ UNCHANGED <<fsVars, creatable, backup_dir_cache, callVars, result, message,
                   calls, envs, preVars, copied, replaced>>

\* One-shot mode after rotate_image has returned: main drops the return value
\* and falls off its end, so the interpreter exits with status 0.
MainReturn ==
    /\ pc = "returned"
    /\ mode = "oneshot"
    /\ pc' = "exited"
    /\ exit_status' = 0
    /\ UNCHANGED <<fsVars, creatable, backup_dir_cache, mode, callVars, result,
                   message, calls, envs, preVars, copied, replaced>>

----------------------------------------------------------------------------
(* interactive_mode                                                        *)

\* A line "<image_path> <direction>": direction = parts[-1].lower()
ReadCommand ==
    /\ pc = "prompt"
    /\ \E q \in Requests : StartCall(q[1], Lower(q[2])) /\ typed' = q[2]
    /\ UNCHANGED mode

\* "exit", "quit" or "q": the loop breaks and the process ends.
ReadExit ==
    /\ pc = "prompt"
    /\ pc' = "exited"
    /\ exit_status' = 0
    /\ UNCHANGED <<fsVars, creatable, backup_dir_cache, mode, callVars, result,
                   message, calls, envs, preVars, copied, replaced>>

\* End of input: EOFError, caught by the loop's handler; the loop breaks.
ReadEOF ==
    /\ pc = "prompt"
    /\ pc' = "exited"
    /\ exit_status' = 0
    /\ UNCHANGED <<fsVars, creatable, backup_dir_cache, mode, callVars, result,
                   message, calls, envs, preVars, copied, replaced>>

\* An empty line: `continue`, nothing is printed.
ReadEmptyLine ==
    /\ pc = "prompt"
    /\ message' = ""
    /\ UNCHANGED <<fsVars, creatable, backup_dir_cache, pc, mode, callVars, result,
                   exit_status, calls, envs, preVars, copied, replaced>>

\* A single word that is neither an exit token nor a direction: the usage
\* hint is printed and the loop continues ("diagnosed" is the point between
\* the print and the `continue`).
ReadMalformed ==
    /\ pc = "prompt"
    /\ pc' = "diagnosed"
    /\ message' = "BadInput"
    /\ UNCHANGED <<fsVars, creatable, backup_dir_cache, mode, callVars, result,
                   exit_status, calls, envs, preVars, copied, replaced>>

\* What the osascript helper can do when asked for the Finder selection.
FinderOutcomes == {"nostart", "timeout", "failed", "empty", "dir", "gone", "file"}

\* The file selected in the Finder when the helper answers with a file, and
\* the path it answers with when the selected item has vanished since.
FinderFile == P("a", "photo", ".jpg")
FinderGone == P("b", "missing", ".png")

\* The bare direction tokens of the model.
BareTokens == {"l"}

\* get_finder_selection(): the value it returns for each outcome of the
\* helper (NoPath stands for None and for the empty string, which
\* `not filepath` treats alike), or raised = TRUE when subprocess.run raises
\* an exception the function does not handle: it handles TimeoutExpired and
\* CalledProcessError only, not the OSError of a helper that cannot be
\* started.
get_finder_selection(o) ==
    CASE o = "nostart" -> [raised |-> TRUE, path |-> NoPath]
      [] o = "timeout" -> [raised |-> FALSE, path |-> NoPath]
      [] o = "failed" -> [raised |-> FALSE, path |-> NoPath]
      [] o = "empty" -> [raised |-> FALSE, path |-> NoPath]
      [] o = "dir" -> [raised |-> FALSE, path |-> NoPath]
      [] o = "gone" -> [raised |-> FALSE, path |-> FinderGone]
      [] o = "file" -> [raised |-> FALSE, path |-> FinderFile]

\* A line that is a bare direction token: the file is the Finder selection.
\* An exception get_finder_selection lets through is caught by neither
\* handler of the loop: the process ends with a traceback, exit status 1.
BareDirection(t, o) ==
    /\ pc = "prompt"
    /\ UNCHANGED mode
    /\   LET r == get_finder_selection(o) IN
         IF r.raised
         THEN /\ pc' = "exited"
              /\ exit_status' = 1
              /\ message' = "Traceback"
              /\ UNCHANGED <<fsVars, creatable, backup_dir_cache, callVars, result,
                             calls, envs, preVars, copied, replaced>>
         ELSE IF r.path = NoPath
         THEN /\ pc' = "diagnosed"
              /\ message' = "NoFileSelected"
              /\ UNCHANGED <<fsVars, creatable, backup_dir_cache, callVars, result,
                             exit_status, calls, envs, preVars, copied, replaced>>
         ELSE IF ~IsFile(r.path)
         THEN /\ pc' = "diagnosed"
              /\ message' = "NotAFile"
              /\ UNCHANGED <<fsVars, creatable, backup_dir_cache, callVars, result,
                             exit_status, calls, envs, preVars, copied, replaced>>
         ELSE StartCall(r.path, Lower(t)) /\ typed' = t

ReadBareDirection == \E t \in BareTokens, o \in FinderOutcomes : BareDirection(t, o)

\* rotate_image has returned (print()) or a diagnostic has been printed
\* (`continue`): the next iteration of the loop.
\* The return value is dropped and the locals of the call are gone.
LoopContinue ==
    /\ pc \in {"returned", "diagnosed"}
    /\ mode = "interactive"
    /\ pc' = "prompt"
    /\ filepath' = NoPath
    /\ direction' = ""
    /\ typed' = ""
    /\ file_type' = None
    /\ rotation_angle' = ""
    /\ tool' = ""
    /\ returncode' = 0
    /\ backup_dir' = None
    /\ backup_path' = NoPath
    /\ result' = FALSE
    /\ message' = ""
    /\ pre_files' = files
    /\ pre_bkp' = bkp
    /\ pre_cache' = backup_dir_cache
    /\ pre_dirs' = dirExists
    /\ copied' = FALSE
    /\ replaced' = FALSE
    /\ UNCHANGED <<fsVars, creatable, backup_dir_cache, mode, exit_status, calls, envs>>

CallSteps == {"rotate_image", "mktemp", "run", "check", "ensure", "unique",
              "copy", "replace"}

\* KeyboardInterrupt while a command is being read or processed: it is no
\* Exception, so only the loop's handler catches it; the loop breaks.
Interrupt ==
    /\ mode = "interactive"
    /\ pc \in CallSteps \cup {"prompt"}
    /\ pc' = "exited"
    /\ exit_status' = 0
    /\ UNCHANGED <<fsVars, creatable, backup_dir_cache, mode, callVars, result,
                   message, calls, envs, preVars, copied, replaced>>

----------------------------------------------------------------------------
(* rotate_image                                                            *)

RotateImage ==
    /\ pc = "rotate_image"
    /\ UNCHANGED <<fsVars, creatable, backup_dir_cache, mode, filepath, direction,
                   typed, tool, returncode, backup_dir, backup_path, exit_status, calls,
                   envs, preVars, copied, replaced>>
    /\ IF direction \notin DOMAIN rotation_map
       THEN Return(FALSE, "InvalidDirection") /\ UNCHANGED <<file_type, rotation_angle>>
       ELSE IF ~IsFile(filepath)
       THEN Return(FALSE, "FileNotFound") /\ UNCHANGED <<file_type, rotation_angle>>
       ELSE IF get_file_type(filepath) = None
       THEN Return(FALSE, "UnsupportedType") /\ UNCHANGED <<file_type, rotation_angle>>
       ELSE /\ file_type' = get_file_type(filepath)
            /\ rotation_angle' = rotation_map[direction]
            /\ pc' = "mktemp"
            /\ UNCHANGED <<result, message>>

----------------------------------------------------------------------------
(* rotate_with_jpegtran and rotate_with_imagemagick.  The two functions    *)
(* differ in the command they run and in the suffix of the temporary file; *)
(* file_type tells which of them is running.                               *)

\* tempfile.NamedTemporaryFile(delete=False, dir=file_dir): an empty file, or
\* the OSError handled at once.
MkTemp ==
    /\ pc = "mktemp"
    /\ UNCHANGED <<files, bkp, dirExists, creatable, backup_dir_cache, mode,
                   callVars, exit_status, calls, envs, preVars, copied, replaced>>
    /\ \E ok \in BOOLEAN :
         IF ok
         THEN tmp' = EmptyFile /\ pc' = "run" /\ UNCHANGED <<result, message>>
         ELSE tmp' = tmp /\ Return(FALSE, "CannotCreateTemp")

\* What the tool can leave at tmp_path.
ToolOutput(out) ==
    CASE out = "absent" -> NoFile
      [] out = "empty" -> EmptyFile
      [] out = "image" -> Rotated(files[filepath], rotation_angle)

\* subprocess.run(cmd): the tool cannot be started (an OSError, handled by
\* the outer handler), or it runs, leaves something at tmp_path and exits.
RunTool ==
    /\ pc = "run"
    /\ tool' = IF file_type = "jpeg" THEN "jpegtran" ELSE "magick"
    /\ UNCHANGED <<files, bkp, dirExists, creatable, backup_dir_cache, mode,
                   filepath, direction, typed, file_type, rotation_angle, backup_dir,
                   backup_path, exit_status, calls, envs, preVars, copied, replaced>>
    /\ \/ Fail("ToolNotStarted") /\ UNCHANGED returncode
       \/ \E rc \in {0, 1}, out \in {"absent", "empty", "image"} :
            /\ returncode' = rc
            /\ tmp' = ToolOutput(out)
            /\ pc' = "check"
            /\ UNCHANGED <<result, message>>

\* Mutant of CheckOutput: the exit status is not looked at.
CheckOutput_IgnoreExitStatus ==
    /\ pc = "check"
    /\ UNCHANGED <<files, bkp, dirExists, creatable, backup_dir_cache, mode,
                   callVars, exit_status, calls, envs, preVars, copied, replaced>>
    /\ IF tmp = NoFile \/ ~NonEmpty(tmp)
       THEN tmp' = NoFile /\ Return(FALSE, "EmptyOrMissingOutput")
       ELSE pc' = "ensure" /\ UNCHANGED <<tmp, result, message>>

\* Mutant of CheckOutput: an output file of size 0 is accepted.
CheckOutput_AllowEmpty ==
    /\ pc = "check"
    /\ UNCHANGED <<files, bkp, dirExists, creatable, backup_dir_cache, mode,
                   callVars, exit_status, calls, envs, preVars, copied, replaced>>
    /\ IF returncode # 0
       THEN tmp' = NoFile /\ Return(FALSE, "ExternalToolFailure")
       ELSE IF tmp = NoFile
       THEN tmp' = NoFile /\ Return(FALSE, "EmptyOrMissingOutput")
       ELSE pc' = "ensure" /\ UNCHANGED <<tmp, result, message>>

\* The checks of the exit status and of the output file.
CheckOutput ==
    /\ pc = "check"
    /\ UNCHANGED <<files, bkp, dirExists, creatable, backup_dir_cache, mode,
                   callVars, exit_status, calls, envs, preVars, copied, replaced>>
    /\ IF returncode # 0
       THEN Fail("ExternalToolFailure")
       ELSE IF tmp = NoFile \/ ~NonEmpty(tmp)
       THEN Fail("EmptyOrMissingOutput")
       ELSE pc' = "ensure" /\ UNCHANGED <<tmp, result, message>>

\* backup_dir = ensure_backup_dir(file_dir)
EnsureBackupDir ==
    /\ pc = "ensure"
    /\ UNCHANGED <<files, bkp, creatable, mode, filepath, direction, typed, file_type,
                   rotation_angle, tool, returncode, backup_path, exit_status,
                   calls, envs, preVars, copied, replaced>>
    /\ LET r == ensure_backup_dir(filepath.dir) IN
       /\ dirExists' = IF r.made = None THEN dirExists
                       ELSE [dirExists EXCEPT ![r.made] = TRUE]
       /\ backup_dir_cache' = IF r.store
                              THEN [backup_dir_cache EXCEPT ![filepath.dir] = r.dir]
                              ELSE backup_dir_cache
       /\ IF r.raised
          THEN Fail("BackupDirUnavailable") /\ UNCHANGED backup_dir
          ELSE /\ backup_dir' = r.dir
               /\ pc' = "unique"
               /\ UNCHANGED <<tmp, result, message>>

\* backup_path = get_unique_backup_path(backup_dir, filename)
GetUniqueBackupPath ==
    /\ pc = "unique"
    /\ UNCHANGED <<files, bkp, dirExists, creatable, backup_dir_cache, mode,
                   filepath, direction, typed, file_type, rotation_angle, tool,
                   returncode, backup_dir, exit_status, calls, envs, preVars, copied, replaced>>
    /\ LET r == get_unique_backup_path(backup_dir, filepath.name) IN
       IF r.raised
       THEN Fail("BackupNameExhausted") /\ UNCHANGED backup_path
       ELSE /\ backup_path' = r.path
            /\ pc' = "copy"
            /\ UNCHANGED <<tmp, result, message>>

\* bkp with content c written at path q (an existing file is overwritten).
WriteBackup(q, c) ==
    [bkp EXCEPT ![q.dir] = (q.name :> c) @@ @]

\* Mutant of CopyToBackup: a failed copy is reported but the call goes on.
CopyToBackup_ContinueOnError ==
    /\ pc = "copy"
    /\ UNCHANGED <<files, dirExists, creatable, backup_dir_cache, mode, callVars,
                   exit_status, calls, envs, preVars, replaced>>
    /\ \/ /\ dirExists[backup_path.dir]
          /\ bkp' = [bkp EXCEPT ![backup_path.dir] =
                        (backup_path.name :> files[filepath]) @@ @]
          /\ copied' = TRUE
          /\ pc' = "replace"
          /\ UNCHANGED <<tmp, result, message>>
       \/ /\ bkp' = bkp
          /\ pc' = "replace"
          /\ UNCHANGED <<tmp, result, message, copied>>

\* Mutant of CopyToBackup: the rotated file is copied instead of the original.
CopyToBackup_CopiesTemp ==
    /\ pc = "copy"
    /\ UNCHANGED <<files, dirExists, creatable, backup_dir_cache, mode, callVars,
                   exit_status, calls, envs, preVars, replaced>>
    /\ \/ /\ dirExists[backup_path.dir]
          /\ bkp' = [bkp EXCEPT ![backup_path.dir] = (backup_path.name :> tmp) @@ @]
          /\ copied' = TRUE
          /\ pc' = "replace"
          /\ UNCHANGED <<tmp, result, message>>
       \/ /\ bkp' = bkp
          /\ tmp' = NoFile
          /\ Return(FALSE, "BackupCopyFailed")
          /\ UNCHANGED copied

\* Mutant of CopyToBackup: the copy is taken to have succeeded also when the
\* directory of backup_path is gone.
CopyToBackup_IntoMissingDir ==
    /\ pc = "copy"
    /\ UNCHANGED <<files, dirExists, creatable, backup_dir_cache, mode, callVars,
                   exit_status, calls, envs, preVars, replaced>>
    /\ \/ /\ bkp' = IF dirExists[backup_path.dir]
                     THEN WriteBackup(backup_path, files[filepath]) ELSE bkp
          /\ copied' = TRUE
          /\ pc' = "replace"
          /\ UNCHANGED <<tmp, result, message>>
       \/ /\ \/ bkp' = bkp
             \/ dirExists[backup_path.dir] /\ bkp' = WriteBackup(backup_path, PartialFile)
          /\ Fail("BackupCopyFailed")
          /\ UNCHANGED copied

\* shutil.copy(abs_filepath, backup_path): it succeeds, or it raises and may
\* leave a truncated file at backup_path.  It cannot succeed when the
\* directory is gone.
CopyToBackup ==
    /\ pc = "copy"
    /\ UNCHANGED <<files, dirExists, creatable, backup_dir_cache, mode, callVars,
                   exit_status, calls, envs, preVars, replaced>>
    /\ \/ /\ dirExists[backup_path.dir]
          /\ bkp' = WriteBackup(backup_path, files[filepath])
          /\ copied' = TRUE
          /\ pc' = "replace"
          /\ UNCHANGED <<tmp, result, message>>
       \/ /\ \/ bkp' = bkp
             \/ dirExists[backup_path.dir] /\ bkp' = WriteBackup(backup_path, PartialFile)
          /\ Fail("BackupCopyFailed")
          /\ UNCHANGED copied

\* Mutant of ReplaceOriginal: the source is overwritten in place, and a
\* failure leaves it half written.
ReplaceOriginal_InPlace ==
    /\ pc = "replace"
    /\ UNCHANGED <<bkp, dirExists, creatable, backup_dir_cache, mode, callVars,
                   exit_status, calls, envs, preVars, copied>>
    /\ \/ /\ files' = [files EXCEPT ![filepath] = tmp]
          /\ tmp' = NoFile
          /\ replaced' = TRUE
          /\ Return(TRUE, "Rotated")
       \/ /\ files' = [files EXCEPT ![filepath] = PartialFile]
          /\ Fail("ReplaceFailed")
          /\ UNCHANGED replaced

\* os.replace(tmp_path, abs_filepath): the rename happens, or it raises an
\* OSError that the outer handler turns into a failed call.
ReplaceOriginal ==
    /\ pc = "replace"
    /\ UNCHANGED <<bkp, dirExists, creatable, backup_dir_cache, mode, callVars,
                   exit_status, calls, envs, preVars, copied>>
    /\ \/ /\ files' = [files EXCEPT ![filepath] = tmp]
          /\ tmp' = NoFile
          /\ replaced' = TRUE
          /\ Return(TRUE, "Rotated")
       \/ /\ Fail("ReplaceFailed")
          /\ UNCHANGED <<files, replaced>>

----------------------------------------------------------------------------
(* The environment: between two commands of an interactive run the user or *)
(* another program changes a backup location.  A change after the last     *)
(* command of the bounded run has no effect and is left out.               *)

\* The permissions that decide whether the directory can be created change.
EnvChmod ==
    /\ pc = "prompt"
    /\ envs < MaxEnv
    /\ calls < MaxCalls
    /\ envs' = envs + 1
    /\ \E d \in BackupDirs : creatable' = [creatable EXCEPT ![d] = ~@]
    /\ UNCHANGED <<fsVars, backup_dir_cache, pc, mode, callVars, result, message,
                   exit_status, calls, preVars, copied, replaced>>

\* rmdir of an empty backup directory.
EnvRmdir ==
    /\ pc = "prompt"
    /\ envs < MaxEnv
    /\ calls < MaxCalls
    /\ envs' = envs + 1
    /\ \E d \in BackupDirs :
         /\ dirExists[d]
         /\ DOMAIN bkp[d] = {}
         /\ dirExists' = [dirExists EXCEPT ![d] = FALSE]
    /\ UNCHANGED <<files, tmp, bkp, creatable, backup_dir_cache, pc, mode, callVars,
                   result, message, exit_status, calls, preVars, copied, replaced>>

----------------------------------------------------------------------------

Next ==
    \/ MainInteractive
    \/ MainOneShot
    \/ MainUsage
    \/ MainReturn
    \/ ReadCommand
    \/ ReadExit
    \/ ReadEOF
    \/ ReadEmptyLine
    \/ ReadMalformed
    \/ ReadBareDirection
    \/ LoopContinue
    \/ Interrupt
    \/ RotateImage
    \/ MkTemp
    \/ RunTool
    \/ CheckOutput
    \/ EnsureBackupDir
    \/ GetUniqueBackupPath
    \/ CopyToBackup
    \/ ReplaceOriginal
    \/ EnvChmod
    \/ EnvRmdir

Spec == Init /\ [][Next]_vars

----------------------------------------------------------------------------
(* Vocabulary of the properties.                                           *)

\* A rotate_image call is running or has just returned: its locals are live.
InCall == filepath # NoPath

\* rotate_image has returned and its return value is still at hand.
Returned == InCall /\ pc \in {"returned", "exited"} /\ message # ""

\* Content of the backup file at path q (NoFile when there is none).
BackupAt(q) ==
    IF q.dir \in BackupDirs /\ BackupExists(q.dir, q.name) THEN bkp[q.dir][q.name]
    ELSE NoFile

\* The source of the running call no longer holds what it held at the call.
SourceChanged == files[filepath] # pre_files[filepath]

\* The backup files that exist now and did not when the call started.
NewBackups ==
    {q \in [dir : BackupDirs, name : UNION {DOMAIN bkp[d] : d \in BackupDirs}] :
        /\ q.name \in DOMAIN bkp[q.dir]
        /\ q.name \notin DOMAIN pre_bkp[q.dir]}

----------------------------------------------------------------------------
(* C1.  The content at the source path is replaced only if the external    *)
(* tool exited with status 0, its output file existed with size > 0 and    *)
(* the copy of the original to the backup path succeeded; in every other   *)
(* execution the source holds after the call what it held before, and no   *)
(* other source file is ever touched.                                      *)
C1_ReplacedOnlyAfterToolOutputBackup ==
    InCall =>
      /\ \A p \in Paths : p # filepath => files[p] = pre_files[p]
      /\ SourceChanged =>
           /\ tool # ""
           /\ returncode = 0
           /\ NonEmpty(files[filepath])
           /\ copied
           /\ BackupAt(backup_path) = pre_files[filepath]
      /\ (Returned /\ ~(tool # "" /\ returncode = 0 /\ copied)) => files = pre_files
      /\ (Returned /\ ~result) => files = pre_files

\* A call that replaced the source has returned.
C1_Witness ==
    Returned /\ result /\ SourceChanged /\ copied /\ returncode = 0

----------------------------------------------------------------------------
(* C2.  In one-shot mode the process ends with a non-zero exit status      *)
(* whenever the rotation failed; exit status 0 occurs only when the source *)
(* was rotated and backed up.                                              *)
C2_OneShotExitStatus ==
    (pc = "exited" /\ mode = "oneshot") =>
      /\ ~result => exit_status # 0
      /\ exit_status = 0 => (result /\ replaced /\ copied)

----------------------------------------------------------------------------
(* C3.  If the external tool exits with a non-zero status, the call fails, *)
(* the source is unchanged, the backup directories hold the files they     *)
(* held before, and neither get_unique_backup_path nor shutil.copy (nor    *)
(* ensure_backup_dir) is reached.                                          *)
C3_ToolFailureChangesNothing ==
    (InCall /\ tool # "" /\ returncode # 0) =>
      /\ pc \in {"check", "returned", "prompt", "exited"}
      /\ files = pre_files
      /\ bkp = pre_bkp
      /\ dirExists = pre_dirs
      /\ backup_dir_cache = pre_cache
      /\ backup_dir = None
      /\ backup_path = NoPath
      /\ ~copied
      /\ Returned => (~result /\ message = "ExternalToolFailure")

\* The tool ran, exited non-zero though it left an image, and the call returned.
C3_Witness ==
    /\ pc = "returned"
    /\ tool = "jpegtran"
    /\ returncode # 0
    /\ message = "ExternalToolFailure"
    /\ DOMAIN pre_bkp[LocalBackupDir("a")] # {}

----------------------------------------------------------------------------
(* C4.  If the external tool exits with status 0 but its output file is    *)
(* missing or has size 0, the call returns False with the empty-or-missing *)
(* diagnostic, the source is unchanged and no backup file is created.      *)
C4_EmptyOutputFails ==
    [][ (pc = "check" /\ returncode = 0 /\ ~NonEmpty(tmp) /\ pc' \notin {"check", "exited"})
          => /\ pc' = "returned"
             /\ result' = FALSE
             /\ message' = "EmptyOrMissingOutput"
             /\ files' = pre_files
             /\ bkp' = pre_bkp
             /\ dirExists' = pre_dirs
             /\ backup_path' = NoPath
             /\ ~copied' ]_vars

\* The call has returned with the empty-or-missing diagnostic after exit status 0.
C4_Witness ==
    pc = "returned" /\ returncode = 0 /\ tool = "magick" /\ message = "EmptyOrMissingOutput"

----------------------------------------------------------------------------
(* C5.  After rotate_with_jpegtran or rotate_with_imagemagick has returned,*)
(* on every path, no file exists under the temporary name: it was deleted  *)
(* or renamed onto the source path.                                        *)
C5_NoTempAfterReturn ==
    (pc \in {"returned", "prompt", "main"} \/ (pc = "exited" /\ mode # "interactive"))
      => tmp = NoFile

\* A call that had created its temporary file and had a non-empty output
\* failed at the backup copy and has returned.
C5_Witness ==
    pc = "returned" /\ message = "BackupCopyFailed" /\ tool # "" /\ ~result

----------------------------------------------------------------------------
(* C6.  When rotate_image returns True, the backup file it reports holds   *)
(* the bytes the source had before the call, the source holds the bytes    *)
(* the external tool wrote to the temporary file, and the backup copy was  *)
(* complete before the source was replaced.                                *)

\* The co-located rotate_bkup directory of the running call.
LocalOfCall == LocalBackupDir(filepath.dir)

\* The part common to the claim as stated and as amended.
C6_BackupThenReplace ==
    /\ pc = "replace" =>
         /\ copied /\ ~replaced
         /\ files[filepath] = pre_files[filepath]
         /\ BackupAt(backup_path) = pre_files[filepath]
    /\ replaced => copied
    /\ (Returned /\ result) =>
         /\ replaced
         /\ BackupAt(backup_path) = pre_files[filepath]
         /\ files[filepath] = Rotated(pre_files[filepath], rotation_angle)
         /\ files[filepath] # pre_files[filepath]
         /\ tmp = NoFile

\* As stated: whenever no file of the source's name existed in the co-located
\* rotate_bkup directory, the backup is at rotate_bkup/<source file name>.
\* (Read generously: a file of the source's name in either rotate_bkup
\* directory the call can use.)
C6_Original ==
    /\ C6_BackupThenReplace
    /\ (Returned /\ result /\ filepath.name \notin DOMAIN pre_bkp[LocalOfCall])
         => /\ backup_path.dir \in {LocalOfCall, Home}
            /\ backup_path.name = filepath.name

\* As amended: the backup is in the directory ensure_backup_dir resolved
\* (the co-located rotate_bkup, or ~/rotate_bkup after a fallback, possibly
\* from the cache); it has the source's file name when no file of that name
\* existed in that directory, and so it is rotate_bkup/<source file name>
\* when that directory is the co-located one.
C6_BackupInResolvedDir ==
    /\ C6_BackupThenReplace
    /\ (Returned /\ result) =>
         /\ backup_path.dir = backup_dir
         /\ backup_dir \in {LocalOfCall, Home}
         /\ filepath.name \notin DOMAIN pre_bkp[backup_dir]
              => backup_path.name = filepath.name
         /\ (backup_dir = LocalOfCall /\ filepath.name \notin DOMAIN pre_bkp[LocalOfCall])
              => backup_path = [dir |-> LocalOfCall, name |-> filepath.name]

\* A successful call whose backup went to the co-located directory under
\* the source's own name.
C6_Witness ==
    /\ Returned /\ result
    /\ backup_path = [dir |-> LocalOfCall, name |-> filepath.name]
    /\ BackupAt(backup_path) = pre_files[filepath]

----------------------------------------------------------------------------
(* C7.  No step of any run overwrites, modifies or removes a backup file   *)
(* that exists; a successful rotation adds exactly one new backup file and *)
(* changes the content of exactly one other path, the source; a rotation   *)
(* in which the tool failed adds none.                                     *)

\* Every backup file of this state is there, unchanged, in the next state.
BackupsKept ==
    \A d \in BackupDirs :
      \A n \in DOMAIN bkp[d] :
        /\ dirExists[d] => dirExists'[d]
        /\ n \in DOMAIN bkp'[d]
        /\ bkp'[d][n] = bkp[d][n]

CallEffect ==
    /\ (Returned /\ result) =>
         /\ Cardinality(NewBackups) = 1
         /\ NewBackups = {backup_path}
         /\ \A d \in BackupDirs : \A n \in DOMAIN pre_bkp[d] :
              n \in DOMAIN bkp[d] /\ bkp[d][n] = pre_bkp[d][n]
         /\ {p \in Paths : files[p] # pre_files[p]} = {filepath}
    /\ (Returned /\ message \in {"ToolNotStarted", "ExternalToolFailure",
                                 "EmptyOrMissingOutput"}) =>
         bkp = pre_bkp /\ files = pre_files

C7_BackupsNeverOverwritten ==
    [][BackupsKept]_vars /\ []CallEffect

\* The second successful rotation of a run has returned: the backup of the
\* first is still there beside the new one.
C7_Witness ==
    /\ Returned /\ result /\ calls = 2
    /\ \E d \in BackupDirs : \E n \in DOMAIN pre_bkp[d] :
         pre_bkp[d][n] # OldFile /\ bkp[d][n] = pre_bkp[d][n]

----------------------------------------------------------------------------
(* C8.  get_unique_backup_path(backup_dir, filename) returns the           *)
(* unsuffixed path when it does not exist; otherwise base_k.ext for the    *)
(* smallest k >= 1 whose path does not exist; the path it returns never    *)
(* names an existing file.  So rotating the same file name twice into a    *)
(* backup directory that was empty yields two backup files, the second     *)
(* suffixed _1.                                                            *)

\* base_k.ext for the file name n
Suffixed(n, k) == SuffixedName(n[1], k, n[2])

C8_UniqueBackupPath ==
    /\ pc = "copy" =>
         LET n == filepath.name IN
         /\ backup_path.dir = backup_dir
         /\ ~BackupExists(backup_dir, backup_path.name)
         /\ ~BackupExists(backup_dir, n) => backup_path.name = n
         /\ BackupExists(backup_dir, n) =>
              \E k \in 1..max_attempts :
                /\ backup_path.name = Suffixed(n, k)
                /\ \A j \in 1..(k - 1) : BackupExists(backup_dir, Suffixed(n, j))
    /\ (Returned /\ result /\ DOMAIN pre_bkp[backup_dir] = {filepath.name}) =>
         /\ backup_path.name = Suffixed(filepath.name, 1)
         /\ DOMAIN bkp[backup_dir] = {filepath.name, Suffixed(filepath.name, 1)}

\* The same file was rotated twice in this run into a directory that was
\* empty: the first backup has the plain name, the second the suffix _1.
C8_Witness ==
    /\ Returned /\ result /\ calls = 2
    /\ DOMAIN pre_bkp[backup_dir] = {filepath.name}
    /\ pre_bkp[backup_dir][filepath.name] = Image("a/photo", 0)
    /\ backup_path.name = <<"photo_1", ".jpg">>

----------------------------------------------------------------------------
(* C9.  get_unique_backup_path terminates, and raises the name-exhausted   *)
(* error exactly when the unsuffixed name and the max_attempts suffixed     *)
(* names _1 .. _max_attempts are all taken; whenever one of them is unused  *)
(* it returns one.                                                         *)

\* The unsuffixed name and the suffixed names _1 .. _m are all taken.
AllTaken(d, n, m) ==
    /\ BackupExists(d, n)
    /\ \A k \in 1..m : BackupExists(d, Suffixed(n, k))

\* As stated: the error is raised exactly when the unsuffixed name and the
\* suffixed names _1 .. _max_attempts are all taken.
C9_Original ==
    /\ (Returned /\ message = "BackupNameExhausted") =>
         AllTaken(backup_dir, filepath.name, max_attempts)
    /\ pc = "copy" => ~AllTaken(backup_dir, filepath.name, max_attempts)

\* What the loop `while counter < max_attempts` does instead: its candidates
\* are the unsuffixed name and the suffixed names _1 .. _(max_attempts - 1);
\* the error is raised exactly when these are taken, also when the suffix
\* _max_attempts is free.
C9_LoopStopsOneShort ==
    /\ (Returned /\ message = "BackupNameExhausted") =>
         /\ AllTaken(backup_dir, filepath.name, max_attempts - 1)
         /\ ~result /\ backup_path = NoPath
    /\ pc = "copy" =>
         /\ ~AllTaken(backup_dir, filepath.name, max_attempts - 1)
         /\ backup_path.name \in
              {filepath.name} \cup
              {Suffixed(filepath.name, k) : k \in 1..(max_attempts - 1)}

----------------------------------------------------------------------------
(* C10.  ensure_backup_dir resolves the backup directory as the rotate_bkup*)
(* directory beside the source when it exists or can be created, else as   *)
(* ~/rotate_bkup, else it raises and the rotation fails with the source    *)
(* unchanged and the temporary file removed; the source is never replaced  *)
(* without a backup copy having been written first.                        *)

\* The directory existed when the call started, or os.makedirs can create it.
Available(d) == pre_dirs[d] \/ creatable[d]

\* The part common to the claim as stated and as amended.
C10_NeverWithoutBackup ==
    /\ (Returned /\ message = "BackupDirUnavailable") =>
         /\ ~result
         /\ files = pre_files
         /\ tmp = NoFile
         /\ bkp = pre_bkp
         /\ ~Available(LocalOfCall) /\ ~Available(Home)
    /\ (InCall /\ SourceChanged) =>
         copied /\ BackupAt(backup_path) = pre_files[filepath]
    /\ (InCall /\ pc \in {"copy", "replace"}) => backup_dir \in BackupDirs

\* As stated: whenever the co-located directory exists or can be created,
\* it is the directory the call uses.
C10_Original ==
    /\ C10_NeverWithoutBackup
    /\ (pc = "unique" /\ Available(LocalOfCall)) => backup_dir = LocalOfCall

\* As amended: the resolution is made once per source directory and run; a
\* later call for the same source directory gets the remembered directory,
\* also when the co-located one has become available in the meantime.
C10_ResolvedOncePerDirectory ==
    /\ C10_NeverWithoutBackup
    /\ pc = "unique" =>
         IF pre_cache[filepath.dir] # None
         THEN backup_dir = pre_cache[filepath.dir] /\ dirExists = pre_dirs
         ELSE /\ backup_dir_cache[filepath.dir] = backup_dir
              /\ dirExists[backup_dir]
              /\ IF Available(LocalOfCall)
                 THEN backup_dir = LocalOfCall
                 ELSE backup_dir = Home /\ Available(Home)

\* A call fell back to ~/rotate_bkup, which it had to create.
C10_Witness ==
    /\ pc = "unique"
    /\ pre_cache[filepath.dir] = None
    /\ backup_dir = Home
    /\ ~pre_dirs[Home] /\ dirExists[Home]

----------------------------------------------------------------------------
(* C11.  Direction tokens.                                                 *)

\* The angle the specification gives for a direction token as typed, in
\* either case; None for every other token.
ClaimAngle(t) ==
    CASE t \in {"l", "L"} -> "270"
      [] t \in {"r", "R"} -> "90"
      [] t \in {"f", "F"} -> "180"
      [] OTHER -> None

\* C11: for every direction token given on the command line or in
\* interactive input, compared case-insensitively, the external tool is
\* passed exactly the clockwise angle 270 for l, 90 for r and 180 for f (and
\* what it writes is the source turned by that angle); any other token is
\* rejected with the invalid-direction error and no external tool is invoked.
C11_DirectionToAngle ==
    InCall =>
      /\ tool # "" =>
           /\ ClaimAngle(typed) # None
           /\ rotation_angle = ClaimAngle(typed)
           /\ tmp \in {NoFile, EmptyFile, Rotated(pre_files[filepath], ClaimAngle(typed))}
      /\ ClaimAngle(typed) = None =>
           /\ tool = "" /\ tmp = NoFile
           /\ pc \in {"rotate_image", "returned", "exited"}
           /\ pc = "returned" => message = "InvalidDirection"
           /\ Returned => ~result /\ message = "InvalidDirection"
      /\ ClaimAngle(typed) # None => message # "InvalidDirection"

\* The tool has written the image of a call whose token was typed in upper
\* case.
C11_Witness ==
    /\ typed = "F" /\ tool = "magick" /\ pc = "check"
    /\ rotation_angle = "180"
    /\ tmp = Rotated(pre_files[filepath], "180")

----------------------------------------------------------------------------
(* C12.  Rejected input.                                                   *)

\* The extensions the specification accepts, in either case.
JpegExtensions == {".jpg", ".JPG", ".jpeg", ".JPEG"}
PngExtensions == {".png", ".PNG"}

\* The input of the running call is one the specification says is rejected.
Rejectable ==
    \/ direction \notin {"l", "r", "f"}
    \/ pre_files[filepath] = NoFile
    \/ filepath.name[2] \notin JpegExtensions \cup PngExtensions

RejectionMessages == {"InvalidDirection", "FileNotFound", "UnsupportedType"}

\* C12: when rotate_image rejects its input (direction not in {l, r, f},
\* path not an existing regular file, or extension not .jpg/.jpeg/.png
\* compared case-insensitively) it has no side effects: no temporary file,
\* no backup directory or backup file, no external tool, the
\* backup-directory cache unchanged; exactly such input is rejected;
\* .jpg/.jpeg inputs go only to jpegtran and .png inputs only to magick.
C12_RejectionHasNoEffect ==
    InCall =>
      /\ Rejectable =>
           /\ pc \in {"rotate_image", "returned", "exited"}
           /\ tmp = NoFile /\ tool = ""
           /\ files = pre_files /\ bkp = pre_bkp /\ dirExists = pre_dirs
           /\ backup_dir_cache = pre_cache
           /\ Returned => ~result /\ message \in RejectionMessages
      /\ (~Rejectable /\ Returned) => message \notin RejectionMessages
      /\ tool = "jpegtran" => filepath.name[2] \in JpegExtensions
      /\ tool = "magick" => filepath.name[2] \in PngExtensions

\* A file of an unsupported type has been rejected in a run that had already
\* resolved a backup directory.
C12_Witness ==
    /\ Returned /\ message = "UnsupportedType"
    /\ pre_cache[filepath.dir] # None
    /\ dirExists[pre_cache[filepath.dir]]

----------------------------------------------------------------------------
(* C13, C14.  The interactive loop.                                        *)

\* C13: in interactive mode a command whose rotation fails, or a malformed
\* or empty line, never ends the loop: the error is reported and the next
\* command is read; the loop ends only on an exit token, end-of-input or an
\* interrupt, and then normally, without an uncaught exception; the next
\* line is read only after the previous rotation has returned.
C13_LoopEndsOnlyOnRequest ==
    [][ mode = "interactive" =>
          /\ (pc # "exited" /\ pc' = "exited") =>
                /\ ReadExit \/ ReadEOF \/ Interrupt
                /\ exit_status' = 0 /\ message' # "Traceback"
          /\ (ReadEmptyLine \/ ReadMalformed) => pc' \in {"prompt", "diagnosed"}
          /\ pc = "returned" => pc' = "prompt"
          /\ (ReadCommand \/ ReadBareDirection) => pc = "prompt" /\ filepath = NoPath
      ]_vars

\* The outcomes of the file-manager query that yield no usable file: the
\* helper cannot be started, the 5-second timeout, a non-zero exit of the
\* helper, an empty selection, a directory.
NoUsableFile == {"nostart", "timeout", "failed", "empty", "dir"}

\* C14: a bare direction token entered when the file-manager query yields
\* no usable file makes the loop print the no-file-selected diagnostic,
\* perform no rotation and no filesystem change, and continue to the next
\* prompt; the loop does not crash.
C14_NoUsableFileContinues ==
    [][ \A t \in BareTokens, o \in NoUsableFile :
          BareDirection(t, o) =>
            /\ pc' = "diagnosed" /\ message' = "NoFileSelected"
            /\ exit_status' = exit_status
            /\ filepath' = NoPath /\ calls' = calls
            /\ UNCHANGED <<fsVars, backup_dir_cache>>
      ]_vars

\* The same for the outcomes get_finder_selection handles: every one of
\* them but the helper that cannot be started.
C14_HandledOutcomesContinue ==
    [][ \A t \in BareTokens, o \in NoUsableFile \ {"nostart"} :
          BareDirection(t, o) =>
            /\ pc' = "diagnosed" /\ message' = "NoFileSelected"
            /\ exit_status' = exit_status
            /\ filepath' = NoPath /\ calls' = calls
            /\ UNCHANGED <<fsVars, backup_dir_cache>>
      ]_vars

----------------------------------------------------------------------------
(* C15.  A remembered backup directory that has gone stale.                *)

\* The directory remembered for the source directory of the running call
\* when the call started (None when there was none).
CachedAtCall == pre_cache[filepath.dir]

\* The errors a call reports.
ErrorMessages ==
    RejectionMessages \cup
    {"CannotCreateTemp", "ToolNotStarted", "ExternalToolFailure",
     "EmptyOrMissingOutput", "BackupDirUnavailable", "BackupNameExhausted",
     "BackupCopyFailed", "ReplaceFailed"}

\* C15: in an interactive run, once a backup directory is remembered for a
\* source directory, whatever has happened to that directory since (removed,
\* unwritable), the next rotation in the source directory either succeeds
\* with a backup, or fails with a reported error, the source unchanged and
\* the temporary file removed; it never replaces the source without a
\* backup and never fails silently.
C15_StaleCacheIsSurfaced ==
    (InCall /\ mode = "interactive" /\ CachedAtCall # None) =>
      /\ SourceChanged =>
           /\ copied /\ dirExists[backup_path.dir]
           /\ BackupAt(backup_path) = pre_files[filepath]
      /\ pc = "returned" =>
           \/ /\ result /\ message = "Rotated"
              /\ BackupAt(backup_path) = pre_files[filepath]
              /\ files[filepath] = Rotated(pre_files[filepath], rotation_angle)
           \/ /\ ~result /\ message \in ErrorMessages
              /\ files = pre_files
              /\ tmp = NoFile

\* The remembered directory had been removed before the call, and the call
\* has failed at the copy with its error reported.
C15_Witness ==
    /\ InCall /\ mode = "interactive" /\ pc = "returned"
    /\ CachedAtCall # None
    /\ ~pre_dirs[CachedAtCall]
    /\ message = "BackupCopyFailed"
    /\ files = pre_files /\ tmp = NoFile

----------------------------------------------------------------------------
(* C18.  The source at every point a rotation can stop.                    *)

\* C18: at every point at which a rotation can stop (any error, or an
\* interrupt at any step of rotate_with_jpegtran / rotate_with_imagemagick
\* in interactive mode) the source path holds either its complete original
\* content, or the complete transformed content with a backup of the
\* original already written; the source is never replaced with the backup
\* missing, and never holds a partially written file.
C18_SourceWholeAtEveryStop ==
    InCall =>
      /\ \/ files[filepath] = pre_files[filepath]
         \/ /\ files[filepath] = Rotated(pre_files[filepath], rotation_angle)
            /\ NonEmpty(files[filepath])
            /\ copied
            /\ BackupAt(backup_path) = pre_files[filepath]
      /\ files[filepath] \notin {PartialFile, EmptyFile}
      /\ replaced => BackupAt(backup_path) = pre_files[filepath]

\* An interrupt has stopped an interactive rotation between the backup copy
\* and the replace.
C18_Witness ==
    /\ InCall /\ mode = "interactive" /\ pc = "exited"
    /\ message = ""
    /\ copied /\ ~replaced
    /\ files[filepath] = pre_files[filepath]
    /\ BackupAt(backup_path) = pre_files[filepath]

----------------------------------------------------------------------------
(* C19.  ensure_backup_dir as a lookup.                                    *)

\* C19: ensure_backup_dir is an idempotent lookup per source directory:
\* within one run every call for a source directory returns the path the
\* first successful call for it returned, the backup directory is created
\* at most once (by that first call, never by a later one), and a call that
\* raises leaves _backup_dir_cache unchanged.
C19_IdempotentLookup ==
    InCall =>
      /\ \A d \in SrcDirs \ {filepath.dir} : backup_dir_cache[d] = pre_cache[d]
      /\ CachedAtCall # None =>
           /\ backup_dir_cache = pre_cache
           /\ dirExists = pre_dirs
           /\ backup_dir \in {None, CachedAtCall}
           /\ pc \in {"unique", "copy", "replace"} => backup_dir = CachedAtCall
      /\ CachedAtCall = None =>
           /\ backup_dir = None => backup_dir_cache = pre_cache /\ dirExists = pre_dirs
           /\ backup_dir # None =>
                /\ backup_dir_cache[filepath.dir] = backup_dir
                /\ \A x \in BackupDirs :
                     dirExists[x] # pre_dirs[x] => x = backup_dir /\ dirExists[x]
      /\ message = "BackupDirUnavailable" =>
           backup_dir_cache = pre_cache /\ dirExists = pre_dirs

\* A later call got the remembered directory back although the directory
\* had been removed in the meantime, and did not create it again.
C19_Witness ==
    /\ InCall /\ pc = "unique"
    /\ CachedAtCall # None
    /\ backup_dir = CachedAtCall
    /\ ~dirExists[backup_dir]

----------------------------------------------------------------------------
(* rotate_jpeg.py, the standalone script: one rotation per process.  It    *)
(* has no cache, no interactive mode and no return values: every failure   *)
(* is a sys.exit(1).  The variables of rotate.py it has no use for stay as  *)
(* they are.                                                               *)

idleVars == <<creatable, backup_dir_cache, result, calls, envs, pre_cache>>

\* The process ends with the given status after printing msg.
Exit(status, msg) ==
    /\ pc' = "exited"
    /\ exit_status' = status
    /\ message' = msg

\* The handler `except Exception`: the temporary file is removed, the error
\* printed, sys.exit(1).
Standalone_Fail(msg) ==
    /\ tmp' = NoFile
    /\ Exit(1, msg)

\* __main__ with a wrong number of arguments.
Standalone_Usage ==
    /\ pc = "main"
    /\ mode' = "standalone"
    /\ Exit(1, "Usage")
    /\ UNCHANGED <<fsVars, idleVars, callVars, preVars, copied, replaced>>

\* __main__: rotate_jpeg(sys.argv[1], sys.argv[2].lower())
Standalone_Main ==
    /\ pc = "main"
    /\ mode' = "standalone"
    /\ pc' = "rotate_jpeg"
    /\ \E q \in Requests :
         /\ filepath' = q[1]
         /\ direction' = Lower(q[2])
         /\ typed' = q[2]
    /\ UNCHANGED <<fsVars, idleVars, file_type, rotation_angle, tool, returncode,
                   backup_dir, backup_path, message, exit_status, preVars, copied,
                   replaced>>

\* rotate_jpeg: the three validations, then the routing.
Standalone_RotateJpeg ==
    /\ pc = "rotate_jpeg"
    /\ UNCHANGED <<fsVars, idleVars, mode, filepath, direction, typed, tool,
                   returncode, backup_dir, backup_path, preVars, copied, replaced>>
    /\ IF direction \notin DOMAIN rotation_map
       THEN Exit(1, "InvalidDirection") /\ UNCHANGED <<file_type, rotation_angle>>
       ELSE IF ~IsFile(filepath)
       THEN Exit(1, "FileNotFound") /\ UNCHANGED <<file_type, rotation_angle>>
       ELSE IF get_file_type(filepath) = None
       THEN Exit(1, "UnsupportedType") /\ UNCHANGED <<file_type, rotation_angle>>
       ELSE /\ file_type' = get_file_type(filepath)
            /\ rotation_angle' = rotation_map[direction]
            /\ pc' = "mktemp"
            /\ UNCHANGED <<message, exit_status>>

\* tempfile.NamedTemporaryFile(delete=False, dir=file_dir), before the try:
\* an empty file, or an OSError nothing catches (a traceback, status 1).
Standalone_MkTemp ==
    /\ pc = "mktemp"
    /\ UNCHANGED <<files, bkp, dirExists, idleVars, mode, callVars, preVars, copied,
                   replaced>>
    /\ \E ok \in BOOLEAN :
         IF ok
         THEN tmp' = EmptyFile /\ pc' = "run" /\ UNCHANGED <<message, exit_status>>
         ELSE tmp' = tmp /\ Exit(1, "Traceback")

\* subprocess.run(cmd): the tool cannot be started (an OSError, caught by
\* the handler), or it runs, leaves something at tmp_path and exits.
Standalone_RunTool ==
    /\ pc = "run"
    /\ tool' = IF file_type = "jpeg" THEN "jpegtran" ELSE "magick"
    /\ UNCHANGED <<files, bkp, dirExists, idleVars, mode, filepath, direction, typed,
                   file_type, rotation_angle, backup_dir, backup_path, preVars,
                   copied, replaced>>
    /\ \/ Standalone_Fail("ToolNotStarted") /\ UNCHANGED returncode
       \/ \E rc \in {0, 1}, out \in {"absent", "empty", "image"} :
            /\ returncode' = rc
            /\ tmp' = ToolOutput(out)
            /\ pc' = "check"
            /\ UNCHANGED <<message, exit_status>>

\* `if result.returncode != 0: ...; sys.exit(1)` inside the try: SystemExit
\* is no Exception, so the handler does not run and nothing removes the
\* temporary file.  The output file is not looked at.
Standalone_CheckExit ==
    /\ pc = "check"
    /\ UNCHANGED <<fsVars, idleVars, mode, callVars, preVars, copied, replaced>>
    /\ IF returncode # 0
       THEN Exit(1, "ExternalToolFailure")
       ELSE pc' = "ensure" /\ UNCHANGED <<message, exit_status>>

\* ensure_backup_dir(filepath) of rotate_jpeg.py: nothing is remembered.
\* The os.makedirs of the fallback is in the `except` clause, so its OSError
\* leaves the function (raised = TRUE).
Standalone_ensure_backup_dir(file_dir) ==
    LET local == LocalBackupDir(file_dir) IN
    IF dirExists[local]
    THEN [raised |-> FALSE, dir |-> local, made |-> None]
    ELSE IF creatable[local]
    THEN [raised |-> FALSE, dir |-> local, made |-> local]
    ELSE IF dirExists[Home]
    THEN [raised |-> FALSE, dir |-> Home, made |-> None]
    ELSE IF creatable[Home]
    THEN [raised |-> FALSE, dir |-> Home, made |-> Home]
    ELSE [raised |-> TRUE, dir |-> None, made |-> None]

\* The `while True` loop of get_unique_backup_path of rotate_jpeg.py, from
\* `counter` on: it ends at the first free name.
RECURSIVE Standalone_CounterLoop(_, _, _, _)
Standalone_CounterLoop(dir, base_name, ext, counter) ==
    IF ~BackupExists(dir, SuffixedName(base_name, counter, ext))
    THEN [dir |-> dir, name |-> SuffixedName(base_name, counter, ext)]
    ELSE Standalone_CounterLoop(dir, base_name, ext, counter + 1)

Standalone_get_unique_backup_path(dir, filename) ==
    IF ~BackupExists(dir, filename)
    THEN [dir |-> dir, name |-> filename]
    ELSE Standalone_CounterLoop(dir, filename[1], filename[2], 1)

\* backup_dir = ensure_backup_dir(filepath)
Standalone_EnsureBackupDir ==
    /\ pc = "ensure"
    /\ UNCHANGED <<files, bkp, idleVars, mode, filepath, direction, typed, file_type,
                   rotation_angle, tool, returncode, backup_path, preVars, copied,
                   replaced>>
    /\ LET r == Standalone_ensure_backup_dir(filepath.dir) IN
       /\ dirExists' = IF r.made = None THEN dirExists
                       ELSE [dirExists EXCEPT ![r.made] = TRUE]
       /\ IF r.raised
          THEN Standalone_Fail("BackupDirUnavailable") /\ UNCHANGED backup_dir
          ELSE /\ backup_dir' = r.dir
               /\ pc' = "unique"
               /\ UNCHANGED <<tmp, message, exit_status>>

\* backup_path = get_unique_backup_path(backup_dir, os.path.basename(filepath))
Standalone_GetUniqueBackupPath ==
    /\ pc = "unique"
    /\ backup_path' = Standalone_get_unique_backup_path(backup_dir, filepath.name)
    /\ pc' = "copy"
    /\ UNCHANGED <<fsVars, idleVars, mode, filepath, direction, typed, file_type,
                   rotation_angle, tool, returncode, backup_dir, message, exit_status,
                   preVars, copied, replaced>>

\* shutil.copy2(filepath, backup_path): it succeeds, or it raises and may
\* leave a truncated file at backup_path.
Standalone_CopyToBackup ==
    /\ pc = "copy"
    /\ UNCHANGED <<files, dirExists, idleVars, mode, callVars, preVars, replaced>>
    /\ \/ /\ dirExists[backup_path.dir]
          /\ bkp' = WriteBackup(backup_path, files[filepath])
          /\ copied' = TRUE
          /\ pc' = "replace"
          /\ UNCHANGED <<tmp, message, exit_status>>
       \/ /\ \/ bkp' = bkp
             \/ dirExists[backup_path.dir] /\ bkp' = WriteBackup(backup_path, PartialFile)
          /\ Standalone_Fail("BackupCopyFailed")
          /\ UNCHANGED copied

\* os.replace(tmp_path, filepath): the rename of whatever is at tmp_path
\* (it raises when nothing is there), or an OSError; both caught.
Standalone_ReplaceOriginal ==
    /\ pc = "replace"
    /\ UNCHANGED <<bkp, dirExists, idleVars, mode, callVars, preVars, copied>>
    /\ \/ /\ tmp # NoFile
          /\ files' = [files EXCEPT ![filepath] = tmp]
          /\ tmp' = NoFile
          /\ replaced' = TRUE
          /\ Exit(0, "Rotated")
       \/ /\ Standalone_Fail("ReplaceFailed")
          /\ UNCHANGED <<files, replaced>>

NextStandalone ==
    \/ Standalone_Usage
    \/ Standalone_Main
    \/ Standalone_RotateJpeg
    \/ Standalone_MkTemp
    \/ Standalone_RunTool
    \/ Standalone_CheckExit
    \/ Standalone_EnsureBackupDir
    \/ Standalone_GetUniqueBackupPath
    \/ Standalone_CopyToBackup
    \/ Standalone_ReplaceOriginal

\* One run of rotate_jpeg.py.
SpecStandalone == Init /\ [][NextStandalone]_vars

----------------------------------------------------------------------------
(* C16, C17.  rotate_jpeg.py.                                              *)

\* The external tool of the run was started and has exited.
ToolExited == tool # "" /\ message # "ToolNotStarted" /\ pc \notin {"run"}

\* C16: in rotate_jpeg.py, when the external tool exits non-zero, or any
\* later step fails, the temporary file is deleted before the process exits
\* with status 1, and the source file is unchanged.
C16_TempDeletedOnFailure ==
    (mode = "standalone" /\ pc = "exited" /\ ToolExited /\ message # "Rotated") =>
      /\ exit_status = 1
      /\ tmp = NoFile
      /\ files = pre_files

\* The same for the failures after the check of the exit status only: those
\* the handler catches.
C16_LaterFailuresCleanUp ==
    (mode = "standalone" /\ pc = "exited" /\ ToolExited
       /\ message \notin {"Rotated", "ExternalToolFailure"}) =>
      /\ exit_status = 1
      /\ tmp = NoFile
      /\ files = pre_files

\* C17: in rotate_jpeg.py the source file is replaced only if the external
\* tool exited with status 0 and its output file exists with size greater
\* than zero; a zero-byte output with exit status 0 makes the operation fail
\* with the source unchanged (the source is never replaced by an empty
\* file).
C17_ReplacedOnlyByOutput ==
    (mode = "standalone" /\ InCall) =>
      /\ files[filepath] # pre_files[filepath] =>
           returncode = 0 /\ NonEmpty(files[filepath])
      /\ (pc = "exited" /\ message = "Rotated") => NonEmpty(files[filepath])
      /\ \A p \in Paths : files[p] # EmptyFile

\* The part of it that holds: no replace after a non-zero exit status, nor
\* without a backup of the original.
C17_ReplacedOnlyAfterExitZero ==
    (mode = "standalone" /\ InCall /\ SourceChanged) =>
      /\ returncode = 0
      /\ copied /\ BackupAt(backup_path) = pre_files[filepath]

============================================================================
